---- MODULE Spec2Model ----
(***************************************************************************)
(* Surrogate generation for point processes (pynapple/process/randomize):  *)
(* shift_timestamps, jitter_timestamps and resample_timestamps over Ts and *)
(* TsGroup.  Time is a float in the program; here it is an integer grid,   *)
(* and np.random.uniform(lo, hi) is a choice among the grid points of      *)
(* [lo, hi).  The containers (Ts, TsGroup, IntervalSet) are not part of    *)
(* the sources at hand and are modelled from the specification.            *)
(***************************************************************************)
EXTENDS Integers, Sequences, FiniteSets, TLC

VARIABLES inp, op, args, draws, out, err, nextId

vars == <<inp, op, args, draws, out, err, nextId>>

(* ---------------------------- bounds ----------------------------------- *)
\* times of the input objects lie on the grid 0..TMax
TMax == 3
\* an input object holds at most MaxEvents timestamps (all members together)
MaxEvents == 2
\* an input TsGroup has 1..MaxKeys members
MaxKeys == 2

(* ------------------------- numeric helpers ----------------------------- *)
\* numpy's nan: larger than every time, so that np.sort leaves it last
NaN == 1000

\* Python/numpy x % y on floats: the result has the sign of the divisor,
\* and a zero divisor gives nan
PyMod(x, y) ==
    IF y = 0 THEN NaN
    ELSE IF y > 0 THEN x % y
    ELSE 0 - ((0 - x) % (0 - y))

\* x + y where x may be nan
Add(x, y) == IF x = NaN THEN NaN ELSE x + y

\* an optional argument: <<>> is None, <<v>> is the value v
None == <<>>

\* the values np.random.uniform(low, high) can return, on the grid:
\* [low, high) when low < high, low when equal, (high, low] when swapped
Uniform(low, high) ==
    IF low < high THEN low .. (high - 1)
    ELSE IF low = high THEN {low}
    ELSE (high + 1) .. low

RECURSIVE Insert(_, _)
Insert(x, s) ==
    IF s = <<>> THEN <<x>>
    ELSE IF x <= Head(s) THEN <<x>> \o s
    ELSE <<Head(s)>> \o Insert(x, Tail(s))

\* np.sort: a sorted copy
RECURSIVE Sort(_)
Sort(s) == IF s = <<>> THEN <<>> ELSE Insert(Head(s), Sort(Tail(s)))

IsSorted(s) == \A i \in 1 .. (Len(s) - 1) : s[i] <= s[i + 1]

(* ---------------------- containers (from the spec) --------------------- *)
\* x lies in some interval of the IntervalSet S (nan lies in none)
InSupport(x, S) ==
    /\ x # NaN
    /\ \E i \in 1 .. Len(S) : S[i].start <= x /\ x <= S[i].end

\* restrict: the timestamps that fall within S, in order
Restrict(t, S) == SelectSeq(t, LAMBDA x : InSupport(x, S))

\* the time support of a series built without one: [min, max]
DefaultSupport(t) ==
    IF t = <<>> THEN <<>>
    ELSE <<[start |-> t[1], end |-> t[Len(t)]]>>

\* nap.Ts(t=t, time_support=S)
Ts(t, S) == [t |-> Restrict(t, S), time_support |-> S]

\* nap.Ts(t=t)
TsNoSupport(t) == [t |-> t, time_support |-> DefaultSupport(t)]

Overlap(i, j) == i.start <= j.end /\ j.start <= i.end

Hull(i, j) ==
    [start |-> IF i.start <= j.start THEN i.start ELSE j.start,
     end   |-> IF i.end >= j.end THEN i.end ELSE j.end]

RECURSIVE SortIntervals(_)
SortIntervals(I) ==
    IF I = {} THEN <<>>
    ELSE LET m == CHOOSE i \in I : \A j \in I : i.start <= j.start
         IN  <<m>> \o SortIntervals(I \ {m})

\* union of a set of intervals: overlapping ones merged, result sorted
RECURSIVE MergeIntervals(_)
MergeIntervals(I) ==
    IF \E i, j \in I : i # j /\ Overlap(i, j)
    THEN LET p == CHOOSE p \in I \X I : p[1] # p[2] /\ Overlap(p[1], p[2])
         IN  MergeIntervals((I \ {p[1], p[2]}) \cup {Hull(p[1], p[2])})
    ELSE SortIntervals(I)

\* nap.TsGroup(data, time_support=S): every member restricted to S
TsGroup(keys, data, S) ==
    [keys |-> keys,
     members |-> [i \in 1 .. Len(keys) |-> Restrict(data[i].t, S)],
     time_support |-> S]

\* nap.TsGroup(data): the support is the union of the members' supports
TsGroupNoSupport(keys, data) ==
    LET S == MergeIntervals(UNION {{data[i].time_support[n] :
                                       n \in 1 .. Len(data[i].time_support)} :
                                   i \in 1 .. Len(keys)})
    IN  TsGroup(keys, data, S)

\* ts.start_time(), ts.end_time(): the bounds of the time support
start_time(ts) == ts.time_support[1].start
end_time(ts) == ts.time_support[Len(ts.time_support)].end

(* --------------------------- objects ----------------------------------- *)
NoObj == [id |-> 0, type |-> "None", t |-> <<>>, keys |-> <<>>,
          members |-> <<>>, time_support |-> <<>>]

TsObj(id, v) ==
    [id |-> id, type |-> "Ts", t |-> v.t, keys |-> <<>>,
     members |-> <<>>, time_support |-> v.time_support]

TsGroupObj(id, g) ==
    [id |-> id, type |-> "TsGroup", t |-> <<>>, keys |-> g.keys,
     members |-> g.members, time_support |-> g.time_support]

TypeErrorMsg == "Invalid input type, should be Ts or TsGroup"
MissingArgMsg == "missing required argument: max_jitter "
NoError == "none"

(* ---------------------------- inputs ----------------------------------- *)
Times == 0 .. TMax

Interval(a, b) == [start |-> a, end |-> b]

\* IntervalSets of one or two intervals: start <= end, sorted, disjoint
Supports ==
    {<<Interval(a, b)>> : a \in Times, b \in Times} \cup
    {<<Interval(p[1], p[2]), Interval(p[3], p[4])>> :
        p \in Times \X Times \X Times \X Times}

ValidSupport(S) ==
    /\ \A i \in 1 .. Len(S) : S[i].start <= S[i].end
    /\ \A i \in 1 .. (Len(S) - 1) : S[i].end < S[i + 1].start

\* sorted series of n timestamps within S
SeriesIn(S, n) ==
    {s \in [1 .. n -> {x \in Times : InSupport(x, S)}] : IsSorted(s)}

SeqSum(lens) ==
    LET F[i \in 0 .. Len(lens)] == IF i = 0 THEN 0 ELSE F[i - 1] + lens[i]
    IN  F[Len(lens)]

ValidSupports == {S \in Supports : ValidSupport(S)}

AllSeries(S) == UNION {SeriesIn(S, n) : n \in 0 .. MaxEvents}

\* the input object has id 1; results get the ids after it
TsInputs ==
    UNION {{TsObj(1, [t |-> s, time_support |-> S]) : s \in AllSeries(S)} :
           S \in ValidSupports}

\* the members of a TsGroup all lie within the group's time support
GroupMembers(S, k) ==
    {m \in [1 .. k -> AllSeries(S)] :
        SeqSum([i \in 1 .. k |-> Len(m[i])]) <= MaxEvents}

TsGroupInputs ==
    UNION {UNION {{TsGroupObj(1, [keys |-> [i \in 1 .. k |-> i],
                                  members |-> m, time_support |-> S]) :
                      m \in GroupMembers(S, k)} :
                  k \in 1 .. MaxKeys} :
           S \in ValidSupports}

\* values whose type is neither Ts nor TsGroup
OtherInputs ==
    {[id |-> 1, type |-> "Tsd", t |-> <<0, 1>>, keys |-> <<>>,
      members |-> <<>>, time_support |-> <<Interval(0, 1)>>],
     [id |-> 1, type |-> "ndarray", t |-> <<0, 1>>, keys |-> <<>>,
      members |-> <<>>, time_support |-> <<>>]}

\* (min_shift, max_shift) of a call
ShiftArgs == {<<0, None>>, <<0, <<2>>>>, <<1, <<3>>>>, <<1, <<1>>>>}

\* (min_jitter, max_jitter) of a call
JitterArgs == {<<0, None>>, <<0, <<0>>>>, <<0, <<2>>>>, <<-1, <<1>>>>}

\* one sequence of draws from U per series, as long as the series
DrawsFor(lens, U) ==
    {d \in [1 .. Len(lens) -> UNION {[1 .. lens[i] -> U] : i \in 1 .. Len(lens)}] :
        \A i \in 1 .. Len(lens) : Len(d[i]) = lens[i]}

Lens(g) == [i \in 1 .. Len(g.keys) |-> Len(g.members[i])]

(* ------------------------------ shift ---------------------------------- *)
\* max_shift as used: the given one, or end - start
shift_ts_max(ts, max_shift) ==
    IF max_shift = None THEN end_time(ts) - start_time(ts) ELSE max_shift[1]

shift_tsgroup_max(tsgroup, max_shift) ==
    IF max_shift = None
    THEN tsgroup.time_support[1].end - tsgroup.time_support[1].start
    ELSE max_shift[1]

\* (times + shift) % end + start
ShiftedTimestamps(t, shift, start, end) ==
    [i \in 1 .. Len(t) |-> Add(PyMod(t[i] + shift, end), start)]

\* variant: the result is built without time_support=ts.time_support
_shift_ts_infer_support(ts, shift) ==
    TsNoSupport(Sort(ShiftedTimestamps(ts.t, shift, start_time(ts),
                                       end_time(ts))))

_shift_ts(ts, shift) ==
    LET shifted_timestamps ==
            ShiftedTimestamps(ts.t, shift, start_time(ts), end_time(ts))
    IN  Ts(Sort(shifted_timestamps), ts.time_support)

_shift_tsgroup(tsgroup, shifts) ==
    LET start == tsgroup.time_support[1].start
        end == tsgroup.time_support[1].end
        shifted_tsgroup ==
            [i \in 1 .. Len(tsgroup.keys) |->
                TsNoSupport(Sort(ShiftedTimestamps(tsgroup.members[i],
                                                   shifts[i], start, end)))]
    IN  TsGroup(tsgroup.keys, shifted_tsgroup, tsgroup.time_support)

\* variant: the offsets are added to the argument's own array (t += x)
InputAfterCallInPlace(ts, d) ==
    IF ts.type = "Ts"
    THEN [ts EXCEPT !.t = [i \in 1 .. Len(ts.t) |-> ts.t[i] + 1]]
    ELSE [ts EXCEPT !.members =
             [k \in 1 .. Len(ts.keys) |->
                 [i \in 1 .. Len(ts.members[k]) |-> ts.members[k][i] + 1]]]

\* the argument object after a call that returns: the functions only read
\* it (ts.times() + x allocates its result, np.sort returns a copy)
InputAfterCall(ts, d) == ts

Raise(msg) ==
    /\ out' = NoObj
    /\ err' = msg
    /\ draws' = <<>>
    /\ nextId' = nextId
    /\ inp' = inp

Return(obj, d) ==
    /\ out' = obj
    /\ err' = NoError
    /\ draws' = d
    /\ nextId' = nextId + 1
    /\ inp' = InputAfterCall(inp, d)

\* variant: an isinstance-like check that lets a Tsd through
IsStrategyLoose(type) == type \in {"Ts", "TsGroup", "Tsd"}

IsStrategy(type) == type \in {"Ts", "TsGroup"}

shift_timestamps ==
    /\ op = "ready"
    /\ op' = "shift"
    /\ \E a \in ShiftArgs :
        /\ args' = [min |-> a[1], max |-> a[2], keep |-> FALSE]
        /\ IF ~IsStrategy(inp.type) THEN Raise(TypeErrorMsg)
           ELSE IF inp.type = "Ts"
           THEN \E shift \in Uniform(a[1], shift_ts_max(inp, a[2])) :
                    Return(TsObj(nextId, _shift_ts(inp, shift)), <<<<shift>>>>)
           ELSE \E shifts \in [1 .. Len(inp.keys) ->
                                  Uniform(a[1], shift_tsgroup_max(inp, a[2]))] :
                    Return(TsGroupObj(nextId, _shift_tsgroup(inp, shifts)),
                           [i \in 1 .. Len(inp.keys) |-> <<shifts[i]>>])

(* ------------------------------ jitter --------------------------------- *)
\* variant: the draws are subtracted
JitteredTimestampsMinus(t, d) == [i \in 1 .. Len(t) |-> t[i] - d[i]]

JitteredTimestamps(t, d) == [i \in 1 .. Len(t) |-> t[i] + d[i]]

\* variant: keep_tsupport is ignored, the support is always inferred
_jitter_ts_ignore_keep(ts, d, keep_tsupport) ==
    TsNoSupport(Sort(JitteredTimestamps(ts.t, d)))

_jitter_ts(ts, d, keep_tsupport) ==
    LET jittered_timestamps == JitteredTimestamps(ts.t, d)
    IN  IF keep_tsupport
        THEN Ts(Sort(jittered_timestamps), ts.time_support)
        ELSE TsNoSupport(Sort(jittered_timestamps))

\* variant: the group is always built on the input's time support
_jitter_tsgroup_always_keep(tsgroup, d, keep_tsupport) ==
    TsGroup(tsgroup.keys,
            [i \in 1 .. Len(tsgroup.keys) |->
                TsNoSupport(Sort(JitteredTimestamps(tsgroup.members[i], d[i])))],
            tsgroup.time_support)

_jitter_tsgroup(tsgroup, d, keep_tsupport) ==
    LET jittered_tsgroup ==
            [i \in 1 .. Len(tsgroup.keys) |->
                TsNoSupport(Sort(JitteredTimestamps(tsgroup.members[i], d[i])))]
    IN  IF keep_tsupport
        THEN TsGroup(tsgroup.keys, jittered_tsgroup, tsgroup.time_support)
        ELSE TsGroupNoSupport(tsgroup.keys, jittered_tsgroup)

\* variant: "not max_jitter", which also rejects 0
max_jitter_falsy(max_jitter) == max_jitter = None \/ max_jitter = <<0>>

\* max_jitter == None
max_jitter_missing(max_jitter) == max_jitter = None

jitter_timestamps ==
    /\ op = "ready"
    /\ op' = "jitter"
    /\ \E a \in JitterArgs, keep_tsupport \in BOOLEAN :
        /\ args' = [min |-> a[1], max |-> a[2], keep |-> keep_tsupport]
        /\ IF ~IsStrategy(inp.type) THEN Raise(TypeErrorMsg)
           ELSE IF max_jitter_missing(a[2]) THEN Raise(MissingArgMsg)
           ELSE IF inp.type = "Ts"
           THEN \E d \in [1 .. Len(inp.t) -> Uniform(a[1], a[2][1])] :
                    Return(TsObj(nextId, _jitter_ts(inp, d, keep_tsupport)),
                           <<d>>)
           ELSE \E d \in DrawsFor(Lens(inp), Uniform(a[1], a[2][1])) :
                    Return(TsGroupObj(nextId,
                                      _jitter_tsgroup(inp, d, keep_tsupport)), d)

(* ----------------------------- resample -------------------------------- *)
\* variant: the draws are passed on without np.sort
_resample_ts_unsorted(ts, resampled_timestamps) ==
    Ts(resampled_timestamps, ts.time_support)

_resample_ts(ts, resampled_timestamps) ==
    Ts(Sort(resampled_timestamps), ts.time_support)

_resample_tsgroup(tsgroup, resampled) ==
    LET resampled_tsgroup ==
            [i \in 1 .. Len(tsgroup.keys) |-> TsNoSupport(Sort(resampled[i]))]
    IN  TsGroup(tsgroup.keys, resampled_tsgroup, tsgroup.time_support)

resample_timestamps ==
    /\ op = "ready"
    /\ op' = "resample"
    /\ args' = args
    /\ IF ~IsStrategy(inp.type) THEN Raise(TypeErrorMsg)
       ELSE IF inp.type = "Ts"
       THEN \E d \in [1 .. Len(inp.t) ->
                         Uniform(start_time(inp), end_time(inp))] :
                Return(TsObj(nextId, _resample_ts(inp, d)), <<d>>)
       ELSE \E d \in DrawsFor(Lens(inp),
                              Uniform(inp.time_support[1].start,
                                      inp.time_support[1].end)) :
                Return(TsGroupObj(nextId, _resample_tsgroup(inp, d)), d)

(* --------------------------- specification ----------------------------- *)
Init ==
    /\ inp \in TsInputs \cup TsGroupInputs \cup OtherInputs
    /\ op = "ready"
    /\ args = [min |-> 0, max |-> None, keep |-> FALSE]
    /\ draws = <<>>
    /\ out = NoObj
    /\ err = NoError
    /\ nextId = 2

Next == shift_timestamps \/ jitter_timestamps \/ resample_timestamps

Spec == Init /\ [][Next]_vars

(* ------------------------------ helpers -------------------------------- *)
Returned(o) == op = o /\ err = NoError

SingleInterval(S) == Len(S) = 1

\* the timestamps of the object as one sequence of series (one for a Ts)
SeriesOf(o) == IF o.type = "Ts" THEN <<o.t>> ELSE o.members

SameCounts(a, b) ==
    /\ Len(SeriesOf(a)) = Len(SeriesOf(b))
    /\ \A i \in 1 .. Len(SeriesOf(a)) :
           Len(SeriesOf(a)[i]) = Len(SeriesOf(b)[i])

(* ------------------------------ claims --------------------------------- *)
\* C1: shift_timestamps on a Ts returns a Ts with exactly as many
\* timestamps as its input, whatever the time support and the shift.
C1_ShiftTsKeepsCount ==
    (Returned("shift") /\ inp.type = "Ts") => Len(out.t) = Len(inp.t)

\* C2: shift_timestamps leaves the time support unchanged: the result of a
\* Ts and of a TsGroup has the time support of the input, interval for
\* interval, whatever offset is drawn.
C2_ShiftKeepsSupport ==
    Returned("shift") => out.time_support = inp.time_support

\* a shift of a Ts and of a TsGroup by a non-zero offset that moved timestamps
C2_Witness ==
    /\ Returned("shift")
    /\ \E i \in 1 .. Len(draws) : draws[i][1] # 0
    /\ SeriesOf(out) # SeriesOf(inp)
    /\ Len(inp.time_support) = 2

\* C3: shift_timestamps on a TsGroup returns a TsGroup with the same keys in
\* the same order and, for every key, as many timestamps as the input member.
C3_ShiftGroupKeepsKeysAndCounts ==
    (Returned("shift") /\ inp.type = "TsGroup") =>
        /\ out.type = "TsGroup"
        /\ out.keys = inp.keys
        /\ SameCounts(inp, out)

\* the rotation of the claim: t -> start + ((t - start + s) mod D)
Rotation(t, s, start, end) ==
    [i \in 1 .. Len(t) |-> start + ((t[i] - start + s) % (end - start))]

\* C4: shift_timestamps is a rigid circular rotation inside the support
\* [start, end) of duration D = end - start: with drawn offset s every
\* timestamp t of a series maps to start + ((t - start + s) mod D).
C4_ShiftIsRotation ==
    (/\ Returned("shift")
     /\ SingleInterval(inp.time_support)
     /\ inp.time_support[1].end > inp.time_support[1].start) =>
        \A i \in 1 .. Len(SeriesOf(inp)) :
            SeriesOf(out)[i] =
                Sort(Rotation(SeriesOf(inp)[i], draws[i][1],
                              inp.time_support[1].start,
                              inp.time_support[1].end))

\* the jittered timestamps of series i, before sorting and restriction
Jittered(i) == JitteredTimestamps(SeriesOf(inp)[i], draws[i])

\* C5: jitter_timestamps with keep_tsupport=True returns an object whose
\* time support is the input's; jittered timestamps outside that support
\* are dropped, so every output timestamp lies in the original support and
\* no series grows.
C5_JitterKeepSupport ==
    (Returned("jitter") /\ args.keep) =>
        /\ out.type = inp.type
        /\ out.time_support = inp.time_support
        /\ \A i \in 1 .. Len(SeriesOf(inp)) :
            /\ \A j \in 1 .. Len(SeriesOf(out)[i]) :
                   InSupport(SeriesOf(out)[i][j], inp.time_support)
            /\ Len(SeriesOf(out)[i]) <= Len(SeriesOf(inp)[i])
            /\ Len(SeriesOf(out)[i]) =
                   Cardinality({j \in 1 .. Len(SeriesOf(inp)[i]) :
                                   InSupport(Jittered(i)[j], inp.time_support)})

\* a jitter that keeps the support and loses some, not all, timestamps
C5_Witness ==
    /\ Returned("jitter")
    /\ args.keep
    /\ \E i \in 1 .. Len(SeriesOf(inp)) :
           /\ Len(SeriesOf(out)[i]) < Len(SeriesOf(inp)[i])
           /\ Len(SeriesOf(out)[i]) > 0

AllJittered ==
    UNION {{Jittered(i)[j] : j \in 1 .. Len(Jittered(i))} :
           i \in 1 .. Len(SeriesOf(inp))}

\* C6: jitter_timestamps with keep_tsupport=False conserves the number of
\* timestamps of a Ts and of every member of a TsGroup, keeps the keys, and
\* returns a time support inferred from the jittered timestamps: it starts
\* at the smallest and ends at the largest of them, and contains them all.
C6_JitterInferSupport ==
    (Returned("jitter") /\ ~args.keep) =>
        /\ out.type = inp.type
        /\ out.keys = inp.keys
        /\ SameCounts(inp, out)
        /\ AllJittered = {} => out.time_support = <<>>
        /\ AllJittered # {} =>
            /\ out.time_support # <<>>
            /\ \A x \in AllJittered :
                /\ InSupport(x, out.time_support)
                /\ out.time_support[1].start <= x
                /\ x <= out.time_support[Len(out.time_support)].end
            /\ out.time_support[1].start \in AllJittered
            /\ out.time_support[Len(out.time_support)].end \in AllJittered

\* a jitter of a TsGroup that moves a timestamp out of the input's support
\* and returns a support different from the input's
C6_Witness ==
    /\ Returned("jitter")
    /\ ~args.keep
    /\ inp.type = "TsGroup"
    /\ out.time_support # inp.time_support
    /\ \E x \in AllJittered : ~InSupport(x, inp.time_support)

\* C7: resample_timestamps preserves the number of timestamps of a Ts and
\* of every member of a TsGroup, and the time support, for every time
\* support, also one made of several disjoint intervals.
C7_ResampleKeepsCountAndSupport ==
    Returned("resample") =>
        /\ SameCounts(inp, out)
        /\ out.time_support = inp.time_support

\* C8: each of the three functions rejects an input whose type is not
\* exactly Ts or TsGroup with the TypeError, before any random draw and
\* without a result; a Ts yields a Ts and a TsGroup yields a TsGroup.
C8_TypeCheck ==
    op # "ready" =>
        /\ inp.type \notin {"Ts", "TsGroup"} =>
               (err = TypeErrorMsg /\ out = NoObj /\ draws = <<>>)
        /\ inp.type \in {"Ts", "TsGroup"} => err # TypeErrorMsg
        /\ err = NoError => out.type = inp.type

\* a jitter of a Tsd without max_jitter: the type error comes first
C8_Witness ==
    /\ op = "jitter"
    /\ inp.type = "Tsd"
    /\ args.max = None
    /\ err = TypeErrorMsg

\* C9: jitter_timestamps on a Ts or TsGroup without max_jitter fails with
\* the TypeError 'missing required argument: max_jitter ' and returns no
\* object; with any max_jitter, 0 included, it does not raise this error.
C9_MissingMaxJitter ==
    (op = "jitter" /\ inp.type \in {"Ts", "TsGroup"}) =>
        /\ args.max = None => (err = MissingArgMsg /\ out = NoObj)
        /\ args.max # None => (err = NoError /\ out # NoObj)

\* a jitter of a TsGroup with max_jitter=0 that returned
C9_Witness ==
    /\ op = "jitter"
    /\ inp.type = "TsGroup"
    /\ args.max = <<0>>
    /\ err = NoError

\* C10: a call of any of the three functions, returning or raising, leaves
\* its input as it was (timestamps, keys, time support), and an object it
\* returns is a new one, not the input.
C10_InputUntouched ==
    [][(op = "ready" /\ op' # "ready") =>
          /\ inp' = inp
          /\ err' = NoError => (out'.id # inp.id /\ out'.id # NoObj.id)]_vars

\* a call that returned timestamps different from its input's
C10_Witness ==
    /\ op \in {"shift", "jitter", "resample"}
    /\ err = NoError
    /\ inp.type = "Ts"
    /\ out.t # inp.t
    /\ out.id = 2

(* -------------------- power spectral density --------------------------- *)
\* The spectral module is not among the sources at hand (only its test is):
\* the call is modelled from the specification, with the same variables:
\* inp is the signal, args the call's arguments, out the returned table.
\* variant: the shorter wording of the message
PsdValueErrorMsgShort == "epoch must have length 1"

PsdValueErrorMsg == "Given epoch (or signal time_support) must have length 1"
PsdTypeErrorMsg ==
    "Currently compute_spectogram is only implemented for Tsd or TsdFrame"

\* a signal: its timestamps, its columns (none for a Tsd), its time support
Signal(type, t, columns, S) ==
    [id |-> 1, type |-> type, t |-> t, keys |-> columns,
     members |-> <<>>, time_support |-> S]

\* Tsd and TsdFrame signals on every support of none, one or two intervals
SignalInputs ==
    UNION {UNION {{Signal("Tsd", t, <<>>, S),
                   Signal("TsdFrame", t, <<1, 2>>, S)} : t \in AllSeries(S)} :
           S \in ValidSupports \cup {<<>>}}
    \cup {Signal("str", <<>>, <<>>, <<>>)}

\* the ep argument: None, or an IntervalSet of none, one or two intervals
EpArgs == {None} \cup {<<S>> : S \in ValidSupports \cup {<<>>}}

\* the epoch the density is computed on: ep, or the signal's time support
PsdEpoch(signal, ep) == IF ep = None THEN signal.time_support ELSE ep[1]

\* variant: only an empty epoch is rejected
EpochHasLengthOneLoose(ep) == Len(ep) >= 1

\* len(ep) == 1
EpochHasLengthOne(ep) == Len(ep) = 1

\* the frequency-indexed table: one row per retained FFT bin (N/2, or N
\* with full_range), one column per channel; the values are not modelled
PsdTable(id, signal, ep, full_range) ==
    LET N == Len(Restrict(signal.t, ep))
        rows == IF full_range THEN N ELSE N \div 2
        cols == IF signal.type = "Tsd" THEN 1 ELSE Len(signal.keys)
    IN  [id |-> id, type |-> "DataFrame", t |-> [i \in 1 .. rows |-> i],
         keys |-> [c \in 1 .. cols |-> c], members |-> <<>>,
         time_support |-> <<>>]

compute_power_spectral_density ==
    /\ op = "ready"
    /\ op' = "psd"
    /\ \E ep \in EpArgs, full_range \in BOOLEAN :
        /\ args' = [ep |-> ep, full_range |-> full_range]
        /\ IF inp.type \notin {"Tsd", "TsdFrame"} THEN Raise(PsdTypeErrorMsg)
           ELSE IF ~EpochHasLengthOne(PsdEpoch(inp, ep))
           THEN Raise(PsdValueErrorMsg)
           ELSE Return(PsdTable(nextId, inp, PsdEpoch(inp, ep), full_range),
                       <<>>)

InitPsd ==
    /\ inp \in SignalInputs
    /\ op = "ready"
    /\ args = [ep |-> None, full_range |-> FALSE]
    /\ draws = <<>>
    /\ out = NoObj
    /\ err = NoError
    /\ nextId = 2

NextPsd == compute_power_spectral_density

SpecPsd == InitPsd /\ [][NextPsd]_vars

\* C11: the single-epoch power spectral density raises the ValueError
\* 'Given epoch (or signal time_support) must have length 1' whenever the
\* given epoch, or without one the signal's time support, has a number of
\* intervals other than one, and returns no table then; with exactly one
\* interval it does not raise this error.
C11_PsdEpochLength ==
    (op = "psd" /\ inp.type \in {"Tsd", "TsdFrame"}) =>
        LET n == IF args.ep = None THEN Len(inp.time_support)
                 ELSE Len(args.ep[1])
        IN  /\ n # 1 =>
                   /\ err = "Given epoch (or signal time_support) must have length 1"
                   /\ out = NoObj
            /\ n = 1 => (err = NoError /\ out.type = "DataFrame")

\* a signal on one interval called with an epoch of two intervals: rejected
C11_Witness ==
    /\ op = "psd"
    /\ inp.type = "Tsd"
    /\ Len(inp.time_support) = 1
    /\ args.ep # None
    /\ Len(args.ep[1]) = 2
    /\ err = "Given epoch (or signal time_support) must have length 1"
    /\ out = NoObj

(* ------------------------ sequences of calls --------------------------- *)
\* the result of a call becomes the argument of the next one, any number
\* of times.  Object identities are renamed on the way: the argument of a
\* later call is object 2 and its result object 3.  Only a result whose
\* times lie on the grid is fed back, and not one with an empty time
\* support (the jitter of an empty series), on which start_time and
\* end_time are not defined.
OnGrid(o) ==
    /\ \A i \in 1 .. Len(SeriesOf(o)) :
           \A j \in 1 .. Len(SeriesOf(o)[i]) : SeriesOf(o)[i][j] \in Times
    /\ \A n \in 1 .. Len(o.time_support) :
           o.time_support[n].start \in Times /\ o.time_support[n].end \in Times

Feed ==
    /\ op # "ready"
    /\ err = NoError
    /\ out.time_support # <<>>
    /\ OnGrid(out)
    /\ inp' = [out EXCEPT !.id = 2]
    /\ op' = "ready"
    /\ args' = [min |-> 0, max |-> None, keep |-> FALSE]
    /\ draws' = <<>>
    /\ out' = NoObj
    /\ err' = NoError
    /\ nextId' = 3

NextSeq == shift_timestamps \/ jitter_timestamps \/ resample_timestamps \/ Feed

SpecSeq == Init /\ [][NextSeq]_vars

\* C12: after any sequence of shift, jitter (either mode) and resample on a
\* valid Ts or TsGroup, the timestamps of every series of the result are
\* sorted in non-decreasing order and lie within some interval of the
\* result's time support.
C12_ContainerInvariants ==
    (op # "ready" /\ err = NoError) =>
        \A i \in 1 .. Len(SeriesOf(out)) :
            /\ IsSorted(SeriesOf(out)[i])
            /\ \A j \in 1 .. Len(SeriesOf(out)[i]) :
                   InSupport(SeriesOf(out)[i][j], out.time_support)

\* a later call of a sequence, on the result of a call before it, returned
\* a series of two distinct timestamps
C12_Witness ==
    /\ op # "ready"
    /\ err = NoError
    /\ inp.id = 2
    /\ out.id = 3
    /\ \E i \in 1 .. Len(SeriesOf(out)) :
           /\ Len(SeriesOf(out)[i]) = 2
           /\ SeriesOf(out)[i][1] # SeriesOf(out)[i][2]

(* --------------------------- jitter bounds ----------------------------- *)
Perms(n) ==
    {p \in [1 .. n -> 1 .. n] : \A a, b \in 1 .. n : p[a] = p[b] => a = b}

\* a one-to-one pairing of the timestamps of a with those of b under which
\* every difference b - a satisfies InBounds
Paired(a, b, InBounds(_)) ==
    /\ Len(a) = Len(b)
    /\ \E p \in Perms(Len(a)) : \A j \in 1 .. Len(a) : InBounds(b[p[j]] - a[j])

\* C13 (as stated): jitter_timestamps with keep_tsupport=False pairs the
\* input and output timestamps of each series one to one so that every
\* output is its input plus some d with min_jitter <= d < max_jitter.
C13_JitterPairing ==
    (Returned("jitter") /\ ~args.keep) =>
        \A i \in 1 .. Len(SeriesOf(inp)) :
            Paired(SeriesOf(inp)[i], SeriesOf(out)[i],
                   LAMBDA d : args.min <= d /\ d < args.max[1])

\* C13 (amended): the same pairing, with min_jitter <= d < max_jitter when
\* min_jitter < max_jitter and d = min_jitter when max_jitter = min_jitter.
C13_JitterPairingAmended ==
    (Returned("jitter") /\ ~args.keep /\ args.min <= args.max[1]) =>
        \A i \in 1 .. Len(SeriesOf(inp)) :
            Paired(SeriesOf(inp)[i], SeriesOf(out)[i],
                   LAMBDA d : IF args.min < args.max[1]
                              THEN args.min <= d /\ d < args.max[1]
                              ELSE d = args.min)

\* a jitter with min_jitter < max_jitter whose output had to be reordered
C13_Witness ==
    /\ Returned("jitter")
    /\ ~args.keep
    /\ args.min < args.max[1]
    /\ \E i \in 1 .. Len(SeriesOf(inp)) :
           /\ Len(SeriesOf(out)[i]) = 2
           /\ Jittered(i) # SeriesOf(out)[i]

(* --------------------------- shift offsets ----------------------------- *)
\* support end minus support start
SupportDuration(o) ==
    o.time_support[Len(o.time_support)].end - o.time_support[1].start

\* the upper bound of the draw that the call uses
MaxShiftUsed ==
    IF inp.type = "Ts" THEN shift_ts_max(inp, args.max)
    ELSE shift_tsgroup_max(inp, args.max)

\* the upper bound of the draw according to the claim
MaxShiftClaimed ==
    IF args.max = None THEN SupportDuration(inp) ELSE args.max[1]

\* C14: shift_timestamps draws exactly one offset s per series (per member
\* of a TsGroup, each its own) with min_shift <= s < max_shift, where an
\* omitted max_shift is the duration of the time support, support end
\* minus support start, for a Ts and for a TsGroup alike.  Stated for the
\* calls whose range [min_shift, max_shift) is not empty.
C14_ShiftOffsets ==
    (Returned("shift") /\ args.min < MaxShiftClaimed) =>
        /\ MaxShiftUsed = MaxShiftClaimed
        /\ Len(draws) = Len(SeriesOf(inp))
        /\ \A i \in 1 .. Len(draws) :
            /\ Len(draws[i]) = 1
            /\ args.min <= draws[i][1]
            /\ draws[i][1] < MaxShiftClaimed

(* ------------------- single and grouped variants ----------------------- *)
\* the one member of a group, as a Ts on the group's time support
MemberAsTs(g) == [t |-> g.members[1], time_support |-> g.time_support]

\* C15: for a TsGroup of one member on the time support S and the same
\* drawn values, shift_timestamps and resample_timestamps give for that key
\* the timestamps and the time support that the same function gives for
\* the member alone as a Ts on S.
C15_VariantsAgree ==
    (/\ op \in {"shift", "resample"}
     /\ err = NoError
     /\ inp.type = "TsGroup"
     /\ Len(inp.keys) = 1) =>
        LET single == IF op = "shift"
                      THEN _shift_ts(MemberAsTs(inp), draws[1][1])
                      ELSE _resample_ts(MemberAsTs(inp), draws[1])
        IN  /\ out.members[1] = single.t
            /\ out.time_support = single.time_support

====
